---------------------------- MODULE Spec2Model ----------------------------
(***************************************************************************)
(* Model of the repo-agent episode: the agent loop run_agent, the scorer   *)
(* run_agent_and_score (src/agent.py) and the judge judge_answer           *)
(* (src/judge.py).                                                         *)
(*                                                                         *)
(* The inference call (litellm.acompletion) and the tools' storage engine  *)
(* are collaborators: their replies are inputs, drawn from small sets.     *)
(* An optional Python value (X | None) is a sequence of length at most 1:  *)
(* <<>> is None and <<v>> is the value v.                                  *)
(***************************************************************************)
EXTENDS Integers, Sequences, FiniteSets, TLC

\* ------------------------------------------------------------------ bounds

\* Episodes (rollouts) the model holds.
NumEpisodes == 2

\* Tool-call requests the inference stub issues in one episode, in total.
MaxCalls == 2

\* Tool-call requests the inference stub puts in one assistant message.
MaxCallsPerMsg == 2

\* ------------------------------------------------------- program constants

MAX_TURNS == 10

Episodes == 1..NumEpisodes

\* The episodes the specification Spec runs.
Started == {1}

\* tools_by_name: the three closures run_agent defines.
tools_by_name == {"search_functions", "read_function", "return_answer"}

\* The arguments string of a tool call: JSON that json.loads accepts, or not.
ArgumentKinds == {"ok", "malformed"}

\* What the inference stub may request, <<name, arguments>>: a tool of the
\* vocabulary, or a name outside it (whose arguments are never looked at).
Requests == (tools_by_name \X ArgumentKinds) \cup {<<"unknown_tool", "ok">>}

None == <<>>

Some(v) == <<v>>

VARIABLES
    pc,          \* where each episode's coroutine stands
    exit,        \* which return (or raise) ended run_agent
    messages,    \* trajectory.messages_and_choices
    answer,      \* trajectory.answer (optional)
    reward,      \* trajectory.reward: 0 is 0.0, 1 is 1.0
    turns,       \* the loop counter of run_agent
    tool_calls,  \* response.choices[0].message.tool_calls being iterated
    idx,         \* position of the for loop in tool_calls
    budget,      \* tool-call requests the inference stub may still issue
    inferCalls,  \* acompletion calls made by run_agent (observed by the stub)
    dispatched,  \* log of the dispatches that parsed arguments or invoked a tool
    judgeCalls,  \* judge_answer invocations
    judgeResp,   \* the reply the inference stub gave to the judge (optional)
    verdict,     \* what judge_answer returned (optional)
    rewardWrites, \* assignments to trajectory.reward after its creation
    index,       \* the github_code table, rows in rowid order
    invocation,  \* the search or read call of the turn in progress (optional)
    last_result, \* how that call came back (optional)
    conn,        \* the module-level connection of tools.py
    connReaders, \* episodes whose tool calls read the global conn
    connWriters, \* episodes whose tool calls assigned the global conn
    judge_stub,  \* the reply a deterministic inference stub gives per judge prompt
    judge_cache, \* litellm.cache: None when not configured, else its entries
    judged,      \* the judge_answer invocations of a judge run: prompt, verdict
    driver,      \* where the training driver is in its batch
    avg_reward   \* the driver's avg_reward: sum and count (optional)

\* The state of the tools; Spec abstracts a tool call to its outcome
\* (ToolOutcomes) and leaves these alone.
toolVars == <<index, invocation, last_result, conn, connReaders, connWriters>>

\* The state of a run of judge.py and of the driver of train.py; the steps of
\* an episode leave these alone.
runVars == <<judge_stub, judge_cache, judged, driver, avg_reward>>

vars == <<pc, exit, messages, answer, reward, turns, tool_calls, idx, budget,
          inferCalls, dispatched, judgeCalls, judgeResp, verdict, rewardWrites,
          index, invocation, last_result, conn, connReaders, connWriters,
          judge_stub, judge_cache, judged, driver, avg_reward>>

\* ---------------------------------------------------------------- messages

Message(role, calls, call_id, name, content) ==
    [role |-> role, tool_calls |-> calls, tool_call_id |-> call_id,
     name |-> name, content |-> content]

NoId == <<0, 0>>

SystemMessage == Message("system", None, NoId, "", "SYSTEM_PROMPT")

UserMessage == Message("user", None, NoId, "", "question")

\* convert_litellm_choice_to_openai(response.choices[0]): the assistant message,
\* its tool_calls None or a list.
AssistantMessage(calls) == Message("assistant", calls, NoId, "", "text")

\* str(tool_result), the empty string when the tool returned None.
Content(result) == IF result = None THEN "" ELSE result[1].str

\* Faulty variant: the tool message does not carry the id of its call.
ToolMessage_NoId(call, result) ==
    Message("tool", None, NoId, call.name, Content(result))

ToolMessage(call, result) ==
    Message("tool", None, call.id, call.name, Content(result))

\* FinalAnswer(answer=..., functions=...) built from the arguments of `call`.
FinalAnswer(call) == [of |-> call.id, str |-> "FinalAnswer"]

\* What a tool returns: search_repo a list or None, read_repo_function a
\* Function or None, return_answer a FinalAnswer.
ToolValue(call, out) ==
    IF out = "none" THEN None
    ELSE IF call.name = "return_answer" THEN Some(FinalAnswer(call))
    ELSE IF call.name = "search_functions" THEN Some([of |-> call.id, str |-> "hits"])
    ELSE Some([of |-> call.id, str |-> "Function"])

\* Outcomes of tool_to_call(**tool_args): a value, None, or an exception
\* (arguments that do not fit the signature, a storage-engine fault).
ToolOutcomes(name) ==
    IF name = "return_answer" THEN {"value", "raised"}
    ELSE {"value", "none", "raised"}


\* ------------------------------------------------------- the inference stub

ToolCall(id, name, arguments) ==
    [id |-> id, name |-> name, arguments |-> arguments]

\* The tool-call lists of length n an assistant message of turn t may carry;
\* the provider gives every request its own correlation id.
CallLists(t, n) ==
    { [k \in 1..n |-> ToolCall(<<t, k>>, f[k][1], f[k][2])] :
        f \in [1..n -> Requests] }

Min(a, b) == IF a < b THEN a ELSE b

\* ------------------------------------------------------------------ states

\* No stand-alone judge run and no driver: only episodes.
NoRun ==
    /\ judge_stub = <<>>
    /\ judge_cache = None
    /\ judged = <<>>
    /\ driver = "idle"
    /\ avg_reward = None

Init ==
    /\ pc = [e \in Episodes |-> IF e \in Started THEN "infer" ELSE "idle"]
    /\ exit = [e \in Episodes |-> "none"]
    /\ messages = [e \in Episodes |->
                     IF e \in Started THEN <<SystemMessage, UserMessage>> ELSE <<>>]
    /\ answer = [e \in Episodes |-> None]
    /\ reward = [e \in Episodes |-> 0]
    /\ turns = [e \in Episodes |-> 0]
    /\ tool_calls = [e \in Episodes |-> None]
    /\ idx = [e \in Episodes |-> 1]
    /\ budget = [e \in Episodes |-> MaxCalls]
    /\ inferCalls = [e \in Episodes |-> 0]
    /\ dispatched = [e \in Episodes |-> <<>>]
    /\ judgeCalls = [e \in Episodes |-> 0]
    /\ judgeResp = [e \in Episodes |-> None]
    /\ verdict = [e \in Episodes |-> None]
    /\ rewardWrites = [e \in Episodes |-> 0]
    /\ index = <<>>
    /\ invocation = [e \in Episodes |-> None]
    /\ last_result = [e \in Episodes |-> None]
    /\ conn = None
    /\ connReaders = {}
    /\ connWriters = {}
    /\ NoRun

\* ------------------------------------------------------------- run_agent

\* Faulty variant: the loop has no turn budget.
LoopContinues_Always(t) == TRUE

\* while turns < MAX_TURNS
LoopContinues(t) == t < MAX_TURNS

\* if response_message.tool_calls is None
ToolCallsIsNone(calls) == calls = None

\* if tool_name in tools_by_name
Resolves(name) == name \in tools_by_name

\* json.loads(tool_call.function.arguments) returns (TRUE) or raises (FALSE)
ArgsParse(arguments) == arguments = "ok"

\* Faulty variant: every tool's result is taken for the answer.
IsReturnAnswer_Any(name) == TRUE

\* if tool_name == "return_answer"
IsReturnAnswer(name) == name = "return_answer"

\* run_agent returns the trajectory to run_agent_and_score.
Return(e, how) ==
    /\ pc' = [pc EXCEPT ![e] = "agent_returned"]
    /\ exit' = [exit EXCEPT ![e] = how]

\* The acompletion call of a turn raises: nothing in run_agent or in
\* run_agent_and_score catches it.
InferRaise(e) ==
    /\ pc[e] = "infer"
    /\ inferCalls' = [inferCalls EXCEPT ![e] = @ + 1]
    /\ pc' = [pc EXCEPT ![e] = "raised"]
    /\ exit' = [exit EXCEPT ![e] = "infer_raised"]
    /\ UNCHANGED <<messages, answer, reward, turns, tool_calls, idx, budget,
                   dispatched, judgeCalls, judgeResp, verdict, rewardWrites>>
    /\ UNCHANGED toolVars
    /\ UNCHANGED runVars

\* The acompletion call returns an assistant message whose tool_calls is
\* `calls` (optional list): the message is appended, then the None test.
InferReturn(e, calls) ==
    /\ pc[e] = "infer"
    /\ inferCalls' = [inferCalls EXCEPT ![e] = @ + 1]
    /\ messages' = [messages EXCEPT ![e] = Append(@, AssistantMessage(calls))]
    /\ tool_calls' = [tool_calls EXCEPT ![e] = calls]
    /\ idx' = [idx EXCEPT ![e] = 1]
    /\ budget' = [budget EXCEPT ![e] = IF calls = None THEN @ ELSE @ - Len(calls[1])]
    /\ IF ToolCallsIsNone(calls)
         THEN Return(e, "no_tool_call")
         ELSE /\ pc' = [pc EXCEPT ![e] = "dispatch"]
              /\ UNCHANGED exit
    /\ UNCHANGED <<answer, reward, turns, dispatched, judgeCalls, judgeResp, verdict,
                   rewardWrites>>
    /\ UNCHANGED toolVars
    /\ UNCHANGED runVars

\* Lengths of the tool-call list the stub may send now (0: an empty list).
ListLengths(e) == 0..Min(MaxCallsPerMsg, budget[e])

Infer(e) ==
    /\ pc[e] = "infer"
    /\ \/ InferReturn(e, None)
       \/ \E n \in ListLengths(e) :
            \E calls \in CallLists(turns[e] + 1, n) : InferReturn(e, Some(calls))

Log(call, outcome) == [id |-> call.id, name |-> call.name, outcome |-> outcome]

\* Faulty variant: looking up the unknown name raises and ends the episode.
SkipCall_Fault(e) ==
    /\ Return(e, "error")
    /\ UNCHANGED <<messages, answer, dispatched, idx>>

\* A tool name that is not in tools_by_name: the body of the if is skipped.
SkipCall(e) ==
    /\ idx' = [idx EXCEPT ![e] = @ + 1]
    /\ UNCHANGED <<pc, exit, messages, answer, dispatched>>

\* Faulty variant: the fault is swallowed and the loop goes on to the next tool call.
OnFault_Continue(e, call, outcome) ==
    /\ dispatched' = [dispatched EXCEPT ![e] = Append(@, Log(call, outcome))]
    /\ idx' = [idx EXCEPT ![e] = @ + 1]
    /\ UNCHANGED <<pc, exit, messages, answer>>

\* Faulty variant: the handler drops the assistant message of the failed turn.
OnFault_Rollback(e, call, outcome) ==
    /\ dispatched' = [dispatched EXCEPT ![e] = Append(@, Log(call, outcome))]
    /\ messages' = [messages EXCEPT ![e] = SubSeq(@, 1, Len(@) - 1)]
    /\ Return(e, "error")
    /\ UNCHANGED <<answer, idx>>

\* except Exception: log and return the trajectory.
OnFault(e, call, outcome) ==
    /\ dispatched' = [dispatched EXCEPT ![e] = Append(@, Log(call, outcome))]
    /\ Return(e, "error")
    /\ UNCHANGED <<messages, answer, idx>>

\* Faulty variant: return_answer sets the answer but the loop is not left.
OnResult_NoReturn(e, call, outcome) ==
    LET tool_result == ToolValue(call, outcome) IN
    /\ dispatched' = [dispatched EXCEPT ![e] = Append(@, Log(call, outcome))]
    /\ messages' = [messages EXCEPT ![e] = Append(@, ToolMessage(call, tool_result))]
    /\ idx' = [idx EXCEPT ![e] = @ + 1]
    /\ IF IsReturnAnswer(call.name)
         THEN answer' = [answer EXCEPT ![e] = tool_result]
         ELSE UNCHANGED answer
    /\ UNCHANGED <<pc, exit>>

\* The tool returned `result`: append the tool message; return_answer sets the
\* answer and returns.
OnResult(e, call, outcome) ==
    LET tool_result == ToolValue(call, outcome) IN
    /\ dispatched' = [dispatched EXCEPT ![e] = Append(@, Log(call, outcome))]
    /\ messages' = [messages EXCEPT ![e] = Append(@, ToolMessage(call, tool_result))]
    /\ IF IsReturnAnswer(call.name)
         THEN /\ answer' = [answer EXCEPT ![e] = tool_result]
              /\ Return(e, "answer")
              /\ UNCHANGED idx
         ELSE /\ idx' = [idx EXCEPT ![e] = @ + 1]
              /\ UNCHANGED <<pc, exit, answer>>

\* One iteration of the for loop over the tool calls.
DispatchCall(e) ==
    /\ pc[e] = "dispatch"
    /\ idx[e] <= Len(tool_calls[e][1])
    /\ LET tool_call == tool_calls[e][1][idx[e]] IN
         IF ~Resolves(tool_call.name) THEN SkipCall(e)
         ELSE IF ~ArgsParse(tool_call.arguments)
           THEN OnFault(e, tool_call, "parse_error")
         ELSE \E out \in ToolOutcomes(tool_call.name) :
                IF out = "raised" THEN OnFault(e, tool_call, out)
                ELSE OnResult(e, tool_call, out)
    /\ UNCHANGED <<reward, turns, tool_calls, budget, inferCalls, judgeCalls,
                   judgeResp, verdict, rewardWrites>>
    /\ UNCHANGED toolVars
    /\ UNCHANGED runVars

\* The for loop is over: turns += 1, then the while test.
EndTurn(e) ==
    /\ pc[e] = "dispatch"
    /\ idx[e] > Len(tool_calls[e][1])
    /\ turns' = [turns EXCEPT ![e] = @ + 1]
    /\ IF LoopContinues(turns[e] + 1)
         THEN /\ pc' = [pc EXCEPT ![e] = "infer"]
              /\ UNCHANGED exit
         ELSE Return(e, "budget")
    /\ invocation' = [invocation EXCEPT ![e] = None]
    /\ last_result' = [last_result EXCEPT ![e] = None]
    /\ UNCHANGED <<messages, answer, reward, tool_calls, idx, budget, inferCalls,
                   dispatched, judgeCalls, judgeResp, verdict, rewardWrites>>
    /\ UNCHANGED <<index, conn, connReaders, connWriters>>
    /\ UNCHANGED runVars

\* ----------------------------------------------------------- judge_answer

\* Replies of the judge's acompletion call.  kind: the call raises ("raise"),
\* the content is no JSON ("not_json"), JSON that is no object ("non_object"),
\* or a JSON object ("object") whose two fields are as named.
JudgeReplies ==
    { [kind |-> k, reasoning |-> "missing", is_correct |-> "missing"] :
        k \in {"raise", "not_json", "non_object"} }
    \cup
    { [kind |-> "object", reasoning |-> r, is_correct |-> c] :
        r \in {"missing", "text", "non_string"},
        c \in {"missing", "true", "false", "invalid"} }

JudgeAnswer(reasoning, is_correct) ==
    [raised |-> FALSE, reasoning |-> reasoning, is_correct |-> is_correct]

\* An exception leaving the function.
Raised == [raised |-> TRUE, reasoning |-> "", is_correct |-> FALSE]

\* except around the acompletion call
OnJudgeCallError == JudgeAnswer("Error in acompletion: e", FALSE)

\* Faulty variant: the parse error is not caught.
OnJudgeParseError_Propagate == Raised

\* except around the parsing of the content
OnJudgeParseError == JudgeAnswer("Error parsing response", FALSE)

\* json_data.get("reasoning", "No reasoning provided")
GetReasoning(reply) ==
    IF reply.reasoning = "missing" THEN "No reasoning provided" ELSE reply.reasoning

\* Faulty variant: a verdict without the field counts as correct.
GetIsCorrect_DefaultTrue(reply) ==
    IF reply.is_correct = "missing" THEN "true" ELSE reply.is_correct

\* json_data.get("is_correct", False)
GetIsCorrect(reply) ==
    IF reply.is_correct = "missing" THEN "false" ELSE reply.is_correct

\* The second try block: json.loads, the two gets, and JudgeAnswer's validation
\* of the field types; TRUE when any of them raises.
ParseRaises(reply) ==
    \/ reply.kind \in {"not_json", "non_object"}
    \/ GetReasoning(reply) = "non_string"
    \/ GetIsCorrect(reply) = "invalid"

judge_answer(reply) ==
    IF reply.kind = "raise" THEN OnJudgeCallError
    ELSE IF ParseRaises(reply) THEN OnJudgeParseError
    ELSE JudgeAnswer(GetReasoning(reply), GetIsCorrect(reply) = "true")

\* ---------------------------------------------------- run_agent_and_score

\* Faulty variant: the test for a missing answer is left out.
AnswerIsNone_Never(a) == FALSE

\* if trajectory.answer is None
AnswerIsNone(a) == a = None

\* Faulty variant: the verdict is not looked at.
Float_Always(b) == 1

\* float(score.is_correct)
Float(b) == IF b THEN 1 ELSE 0

\* Faulty variant: a provisional reward is written before the judge is called.
Score_ProvisionalReward(e) ==
    /\ pc[e] = "agent_returned"
    /\ IF AnswerIsNone(answer[e])
         THEN /\ pc' = [pc EXCEPT ![e] = "returned"]
              /\ UNCHANGED <<judgeCalls, reward, rewardWrites>>
         ELSE /\ pc' = [pc EXCEPT ![e] = "judging"]
              /\ judgeCalls' = [judgeCalls EXCEPT ![e] = @ + 1]
              /\ reward' = [reward EXCEPT ![e] = 1]
              /\ rewardWrites' = [rewardWrites EXCEPT ![e] = @ + 1]
    /\ UNCHANGED <<exit, messages, answer, turns, tool_calls, idx, budget,
                   inferCalls, dispatched, judgeResp, verdict>>
    /\ UNCHANGED toolVars
    /\ UNCHANGED runVars

\* run_agent has returned: return the trajectory unjudged, or call the judge.
Score(e) ==
    /\ pc[e] = "agent_returned"
    /\ IF AnswerIsNone(answer[e])
         THEN /\ pc' = [pc EXCEPT ![e] = "returned"]
              /\ UNCHANGED judgeCalls
         ELSE /\ pc' = [pc EXCEPT ![e] = "judging"]
              /\ judgeCalls' = [judgeCalls EXCEPT ![e] = @ + 1]
    /\ UNCHANGED <<exit, messages, answer, reward, turns, tool_calls, idx, budget,
                   inferCalls, dispatched, judgeResp, verdict, rewardWrites>>
    /\ UNCHANGED toolVars
    /\ UNCHANGED runVars

\* judge_answer gets the reply of its inference call and returns (or raises);
\* the reward is set from the verdict.
Judged(e) ==
    /\ pc[e] = "judging"
    /\ \E reply \in JudgeReplies :
         LET score == judge_answer(reply) IN
         /\ judgeResp' = [judgeResp EXCEPT ![e] = Some(reply)]
         /\ verdict' = [verdict EXCEPT ![e] = Some(score)]
         /\ IF score.raised
              THEN /\ pc' = [pc EXCEPT ![e] = "raised"]
                   /\ UNCHANGED <<reward, rewardWrites>>
              ELSE /\ pc' = [pc EXCEPT ![e] = "returned"]
                   /\ reward' = [reward EXCEPT ![e] = Float(score.is_correct)]
                   /\ rewardWrites' = [rewardWrites EXCEPT ![e] = @ + 1]
    /\ UNCHANGED <<exit, messages, answer, turns, tool_calls, idx, budget,
                   inferCalls, dispatched, judgeCalls>>
    /\ UNCHANGED toolVars
    /\ UNCHANGED runVars

\* ------------------------------------------------------------ specification

Next ==
    \E e \in Episodes :
        \/ InferRaise(e)
        \/ Infer(e)
        \/ DispatchCall(e)
        \/ EndTurn(e)
        \/ Score(e)
        \/ Judged(e)

Spec == Init /\ [][Next]_vars

\* The steps of run_agent for episode e, every inference call returning.
RunAgent(e) == Infer(e) \/ DispatchCall(e) \/ EndTurn(e)

\* The event loop keeps running a started coroutine: whenever run_agent can
\* take a step, it does.
SpecFair == Spec /\ \A e \in Started : WF_vars(RunAgent(e))

\* -------------------------------------------------------------- the index

\* Most keywords one search_functions call carries.
MaxKeywords == 2

\* max_results: int = 20
DEFAULT_MAX_RESULTS == 20

\* tokens[:50]
SNIPPET_TOKENS == 50

\* The repository of the scenario (the `repo` the tool closures capture).
Repo == "r"

Keywords == {"config", "parse"}

\* The keyword lists of a search_functions call, the empty list included.
KeywordLists == UNION { [1..n -> Keywords] : n \in 0..MaxKeywords }

\* A row of github_code.  fts: the tokens the FTS5 table holds for it, lower
\* case, as <<prefix, word>>; like: the keywords that occur as a substring of
\* func_name, func_documentation_string or func_code_tokens; doc_len: characters
\* of func_documentation_string; n_tokens: len(func_code_tokens.split()).
Unit(repo, path, name, fts, like, doc_len, n_tokens) ==
    [repository_name |-> repo, func_path_in_repository |-> path, func_name |-> name,
     fts |-> fts, like |-> like, doc_len |-> doc_len, n_tokens |-> n_tokens]

\* The token of a keyword written as it is.
Tok(k) == <<"", k>>

\* Units a scenario's index may hold: one with both keywords and long fields,
\* one with only "config", one named CombineConfig, one where the keywords
\* are substrings of a longer word, one of another repository.
Units ==
    << Unit(Repo, "a.py", "both", {Tok("config"), Tok("parse")}, {"config", "parse"}, 1200, 80),
       Unit(Repo, "b.py", "only_config", {Tok("config")}, {"config"}, 10, 3),
       Unit(Repo, "c.py", "CombineConfig", {<<"combine", "config">>}, {"config"}, 0, 50),
       Unit(Repo, "d.py", "configparser", {}, {"config", "parse"}, 10, 51),
       Unit("other", "a.py", "both", {Tok("config"), Tok("parse")}, {"config", "parse"}, 10, 3) >>

\* The subsequence of s at the positions in P, in order.
Pick(s, P) ==
    LET Q == P \cap DOMAIN s IN
    [k \in 1..Cardinality(Q) |->
        s[CHOOSE i \in Q : Cardinality({ j \in Q : j <= i }) = k]]

\* More units than the result cap, alternately found by token and by
\* substring only.
BigIndex ==
    [i \in 1..(DEFAULT_MAX_RESULTS + 2) |->
        IF i % 2 = 1
          THEN Unit(Repo, "big.py", "f" \o ToString(i), {Tok("config")}, {}, 10, 3)
          ELSE Unit(Repo, "big.py", "f" \o ToString(i), {}, {"config"}, 10, 3)]

\* The index contents of a run: rows in rowid order, keys unique.
Indexes == { Pick(Units, P) : P \in SUBSET DOMAIN Units } \cup {BigIndex}

\* UNIQUE(repository_name, func_path_in_repository, func_name)
Key(r) == <<r.repository_name, r.func_path_in_repository, r.func_name>>

\* The keys read_function is called with: a unit's, and one that no index holds.
ReadKeys == {<<"a.py", "both">>, <<"z.py", "missing">>}

\* --------------------------------------------------------------- tools.py

\* A search term: a keyword, capitalized or not, behind a camelCase prefix or
\* none, with a trailing * or none.
Term(prefix, word, cap, star) ==
    [prefix |-> prefix, word |-> word, cap |-> cap, star |-> star]

\* The keyword as the caller wrote it.
Plain(k) == Term("", k, FALSE, FALSE)

RECURSIVE Concat(_)
Concat(ss) == IF ss = <<>> THEN <<>> ELSE Head(ss) \o Concat(Tail(ss))

\* s, with only the first occurrence of every element.
RECURSIVE Distinct(_)
Distinct(s) ==
    IF s = <<>> THEN <<>>
    ELSE LET init == Distinct(SubSeq(s, 1, Len(s) - 1)) IN
         IF \E i \in DOMAIN init : init[i] = s[Len(s)] THEN init
         ELSE Append(init, s[Len(s)])

\* s read from position r + 1 on, around the end.
Rotate(s, r) ==
    [i \in DOMAIN s |-> s[((i - 1 + r) % Len(s)) + 1]]

\* The variations.append calls for one keyword, in program order.
Variations(k) ==
    << Plain(k),
       Term("", k, TRUE, FALSE),
       Term("Combine", k, TRUE, FALSE),
       Term("Mix", k, TRUE, FALSE),
       Term("Base", k, TRUE, FALSE),
       Term("", k, FALSE, TRUE),
       Term("", k, TRUE, TRUE) >>

\* list(set(variations)): the distinct variations, in the order the set
\* iterates; `order` picks the element that comes first.
generate_camelcase_variations(keywords, order) ==
    LET variations ==
          Distinct(Concat([i \in DOMAIN keywords |-> Variations(keywords[i])]))
    IN  IF variations = <<>> THEN <<>> ELSE Rotate(variations, order % Len(variations))

\* The orders of the set the model draws from: the keyword as written comes
\* first, or the camelCase variations come before it.
SetOrders == {0, 2}

\* A term with a * is wrapped in double quotes, where the * is a separator and
\* not the prefix operator; FTS5 folds case: every term matches the token
\* <<prefix, word>> in lower case.
Lower(prefix) ==
    CASE prefix = "Combine" -> "combine"
      [] prefix = "Mix" -> "mix"
      [] prefix = "Base" -> "base"
      [] OTHER -> ""

FtsToken(t) == <<Lower(t.prefix), t.word>>

\* LIMIT ?
Limit(rows, n) == SubSeq(rows, 1, Min(Len(rows), n))

\* func_snippet: the first SNIPPET_TOKENS tokens, "..." behind them when
\* there were more.
Snippet(n_tokens) ==
    [tokens |-> Min(n_tokens, SNIPPET_TOKENS), ellipsis |-> n_tokens > SNIPPET_TOKENS]

\* func_docs and func_snippet are given by their length.
SearchResult(repo_name, func_path, func_name, func_docs, func_snippet) ==
    [repo_name |-> repo_name, func_path |-> func_path, func_name |-> func_name,
     func_docs |-> func_docs, func_snippet |-> func_snippet]

convert_to_search_results(results) ==
    [i \in DOMAIN results |->
        SearchResult(results[i].repository_name,
                     results[i].func_path_in_repository,
                     results[i].func_name,
                     results[i].doc_len,
                     Snippet(results[i].n_tokens))]

\* Faults of the storage engine during one tool call: none; every FTS
\* statement fails with OperationalError; a statement fails with another
\* sqlite3.Error; the connection cannot be opened.
DbFaults == {"none", "fts_operational", "database_error", "connect"}

\* _search_with_fts: the rows of the repository that hold the token of every
\* term.  An empty term list gives the query "*", which FTS5 rejects with an
\* OperationalError, caught like any other: no rows.
search_with_fts(cursor, repo_name, terms, max_results, fault) ==
    IF fault = "fts_operational" \/ terms = <<>> THEN <<>>
    ELSE convert_to_search_results(
           Limit(Pick(cursor, { i \in DOMAIN cursor :
                               /\ cursor[i].repository_name = repo_name
                               /\ \A j \in DOMAIN terms : FtsToken(terms[j]) \in cursor[i].fts }),
                 max_results))

\* Faulty variant: the substring fallback is not run.
search_with_like_Skipped(cursor, repo_name, keywords, max_results) == <<>>

\* _search_with_like: the rows of the repository that hold every keyword as a
\* substring; nothing for an empty keyword list.
search_with_like(cursor, repo_name, keywords, max_results) ==
    IF keywords = <<>> THEN <<>>
    ELSE convert_to_search_results(
           Limit(Pick(cursor, { i \in DOMAIN cursor :
                               /\ cursor[i].repository_name = repo_name
                               /\ \A j \in DOMAIN keywords : keywords[j] \in cursor[i].like }),
                 max_results))

\* key = (result.repo_name, result.func_path, result.func_name)
ResultKey(r) == <<r.repo_name, r.func_path, r.func_name>>

\* Faulty variant: the hits of all strategies are kept as they come.
RemoveDuplicates_Keep(all_results) == all_results

\* The seen/search_results loop: the first hit of every key, in order.
RemoveDuplicates(all_results) ==
    Pick(all_results,
         { i \in DOMAIN all_results :
             \A j \in 1..(i - 1) : ResultKey(all_results[j]) # ResultKey(all_results[i]) })

\* Faulty variant: the slice is left out.
LimitResults_All(search_results, max_results) == search_results

\* search_results[:max_results]
LimitResults(search_results, max_results) ==
    SubSeq(search_results, 1, Min(Len(search_results), max_results))

\* A list as a tool value; str is its rendering by str().
ListValue(items) ==
    [str |-> IF items = <<>> THEN "[]" ELSE "[SearchResult]", items |-> items]

\* Faulty variant: an empty list is returned as a list.
NoneIfEmpty_List(search_results) == Some(ListValue(search_results))

\* if not search_results: return None
NoneIfEmpty(search_results) ==
    IF search_results = <<>> THEN None ELSE Some(ListValue(search_results))

\* Faulty variant: the substring hits are collected first.
AllResults_LikeFirst(cursor, repo_name, keywords, max_results, fault, order) ==
    LET fts_results ==
          search_with_fts(cursor, repo_name, [i \in DOMAIN keywords |-> Plain(keywords[i])],
                          max_results, fault)
        enhanced_results ==
          Concat([i \in DOMAIN keywords |->
                    LET enhanced_keywords ==
                          generate_camelcase_variations(<<keywords[i]>>, order) IN
                    Concat([j \in DOMAIN enhanced_keywords |->
                              search_with_fts(cursor, repo_name, <<enhanced_keywords[j]>>,
                                              max_results, fault)])])
        like_results == search_with_like(cursor, repo_name, keywords, max_results)
    IN  like_results \o fts_results \o enhanced_results

\* All hits in the order search_repo collects them: FTS on all keywords, FTS
\* on every variation of every keyword, LIKE on all keywords.
AllResults(cursor, repo_name, keywords, max_results, fault, order) ==
    LET fts_results ==
          search_with_fts(cursor, repo_name, [i \in DOMAIN keywords |-> Plain(keywords[i])],
                          max_results, fault)
        enhanced_results ==
          Concat([i \in DOMAIN keywords |->
                    LET enhanced_keywords ==
                          generate_camelcase_variations(<<keywords[i]>>, order) IN
                    Concat([j \in DOMAIN enhanced_keywords |->
                              search_with_fts(cursor, repo_name, <<enhanced_keywords[j]>>,
                                              max_results, fault)])])
        like_results == search_with_like(cursor, repo_name, keywords, max_results)
    IN  fts_results \o enhanced_results \o like_results

\* search_repo behind its first two lines (the connection is open): the value
\* it returns.  A sqlite3.Error that is not caught further in gives [].
search_repo(cursor, repo_name, keywords, max_results, fault, order) ==
    IF fault = "database_error" THEN Some(ListValue(<<>>))
    ELSE NoneIfEmpty(
           LimitResults(
             RemoveDuplicates(AllResults(cursor, repo_name, keywords, max_results, fault, order)),
             max_results))

\* Function(repo_name=..., ...) built from a row, as a tool value.
Function(row) == [str |-> "Function", key |-> Key(row)]

\* Faulty variant: a row is fetched whether the key matches or not.
fetchone_Any(cursor, key) ==
    IF cursor = <<>> THEN None ELSE Some(cursor[1])

\* cursor.execute(query, [repo_name, func_path, func_name]); cursor.fetchone()
fetchone(cursor, key) ==
    LET hits == { i \in DOMAIN cursor : Key(cursor[i]) = key } IN
    IF hits = {} THEN None ELSE Some(cursor[CHOOSE i \in hits : TRUE])

\* read_repo_function behind its first two lines: a Function, or None when
\* the key is not there or a statement fails with sqlite3.Error.
read_repo_function(cursor, repo_name, func_path, func_name, fault) ==
    IF fault = "database_error" THEN None
    ELSE LET result == fetchone(cursor, <<repo_name, func_path, func_name>>) IN
         IF result = None THEN None ELSE Some(Function(result[1]))

\* ------------------------------------------- the loop with the real tools

NoKey == <<"", "">>

\* What a tool is called with, after json.loads: the keyword list of
\* search_functions or the (func_path, func_name) of read_function, and the
\* fault the storage engine has during the call.
Invocation(name, keywords, key, fault) ==
    [name |-> name, keywords |-> keywords, key |-> key, fault |-> fault]

Invocations(name, lists, faults) ==
    IF name = "search_functions"
      THEN { Invocation(name, k, NoKey, f) : k \in lists, f \in faults }
      ELSE { Invocation(name, <<>>, k, f) : k \in ReadKeys, f \in faults }

\* How a tool call came back: it raised, or it returned `value`.
Outcome(raised, value) == [raised |-> raised, value |-> value]

\* search_functions(keywords) and read_function(func_path, func_name), the
\* connection open.
CallValue(inv, order) ==
    IF inv.name = "search_functions"
      THEN search_repo(index, Repo, inv.keywords, DEFAULT_MAX_RESULTS, inv.fault, order)
      ELSE read_repo_function(index, Repo, inv.key[1], inv.key[2], inv.fault)

\* get_conn() by a tool call of episode e: the global is read, and assigned
\* when it was None and sqlite3.connect returns.
get_conn(e, fault) ==
    /\ connReaders' = connReaders \cup {e}
    /\ IF conn = None /\ fault # "connect"
         THEN /\ conn' = Some("open")
              /\ connWriters' = connWriters \cup {e}
         ELSE UNCHANGED <<conn, connWriters>>

\* The tool returned (search_functions, read_function): the tool message is
\* appended and the for loop goes on.
\* Faulty variant: the tool message goes to the conversation of every episode.
OnToolReturn_Broadcast(e, call, tool_result) ==
    /\ dispatched' = [dispatched EXCEPT ![e] =
                        Append(@, Log(call, IF tool_result = None THEN "none" ELSE "value"))]
    /\ messages' = [x \in Episodes |-> Append(messages[x], ToolMessage(call, tool_result))]
    /\ idx' = [idx EXCEPT ![e] = @ + 1]
    /\ UNCHANGED <<pc, exit, answer>>

OnToolReturn(e, call, tool_result) ==
    /\ dispatched' = [dispatched EXCEPT ![e] =
                        Append(@, Log(call, IF tool_result = None THEN "none" ELSE "value"))]
    /\ messages' = [messages EXCEPT ![e] = Append(@, ToolMessage(call, tool_result))]
    /\ idx' = [idx EXCEPT ![e] = @ + 1]
    /\ UNCHANGED <<pc, exit, answer>>

\* tool_to_call(**tool_args) for a search or a read, and what the loop does
\* with it.  sqlite3.connect raises outside the try of the tool.
Call(e, tool_call, inv, order) ==
    /\ inv.fault = "connect" => conn = None
    /\ get_conn(e, inv.fault)
    /\ invocation' = [invocation EXCEPT ![e] = Some(inv)]
    /\ IF inv.fault = "connect"
         THEN /\ last_result' = [last_result EXCEPT ![e] = Some(Outcome(TRUE, None))]
              /\ OnFault(e, tool_call, "raised")
         ELSE LET tool_result == CallValue(inv, order) IN
              /\ last_result' = [last_result EXCEPT ![e] = Some(Outcome(FALSE, tool_result))]
              /\ OnToolReturn(e, tool_call, tool_result)

\* One iteration of the for loop, the tool a search or a read, its keyword
\* list, the fault and the set order drawn from the given sets.
CallToolWith(e, lists, faults, orders) ==
    /\ pc[e] = "dispatch"
    /\ idx[e] <= Len(tool_calls[e][1])
    /\ LET tool_call == tool_calls[e][1][idx[e]] IN
         /\ tool_call.name \in {"search_functions", "read_function"}
         /\ ArgsParse(tool_call.arguments)
         /\ \E inv \in Invocations(tool_call.name, lists, faults) :
              \E order \in orders : Call(e, tool_call, inv, order)
    /\ UNCHANGED <<reward, turns, tool_calls, budget, inferCalls, judgeCalls,
                   judgeResp, verdict, rewardWrites, index>>
    /\ UNCHANGED runVars

CallTool(e) == CallToolWith(e, KeywordLists, DbFaults, SetOrders)

\* The inference stub asks for one search or one read, or for nothing.
InferTool(e) ==
    /\ pc[e] = "infer"
    /\ \/ InferReturn(e, None)
       \/ /\ budget[e] > 0
          /\ \E name \in {"search_functions", "read_function"} :
               InferReturn(e, Some(<<ToolCall(<<turns[e] + 1, 1>>, name, "ok")>>))

\* An episode is started over any of the indexes.
InitTools ==
    /\ pc = [e \in Episodes |-> IF e \in Started THEN "infer" ELSE "idle"]
    /\ exit = [e \in Episodes |-> "none"]
    /\ messages = [e \in Episodes |->
                     IF e \in Started THEN <<SystemMessage, UserMessage>> ELSE <<>>]
    /\ answer = [e \in Episodes |-> None]
    /\ reward = [e \in Episodes |-> 0]
    /\ turns = [e \in Episodes |-> 0]
    /\ tool_calls = [e \in Episodes |-> None]
    /\ idx = [e \in Episodes |-> 1]
    /\ budget = [e \in Episodes |-> MaxCalls]
    /\ inferCalls = [e \in Episodes |-> 0]
    /\ dispatched = [e \in Episodes |-> <<>>]
    /\ judgeCalls = [e \in Episodes |-> 0]
    /\ judgeResp = [e \in Episodes |-> None]
    /\ verdict = [e \in Episodes |-> None]
    /\ rewardWrites = [e \in Episodes |-> 0]
    /\ index \in Indexes
    /\ invocation = [e \in Episodes |-> None]
    /\ last_result = [e \in Episodes |-> None]
    /\ conn = None
    /\ connReaders = {}
    /\ connWriters = {}
    /\ NoRun

NextTools ==
    \E e \in Episodes :
        \/ InferTool(e)
        \/ CallTool(e)
        \/ EndTurn(e)

SpecTools == InitTools /\ [][NextTools]_vars

\* ------------------------------------------------- rollouts of one group

\* A tool call of a rollout: one keyword, the store healthy or not to be
\* opened.
RolloutCallTool(e) == CallToolWith(e, {<<"config">>}, {"none", "connect"}, {0})

\* gather_trajectory_groups: every rollout of the group is started in the
\* one event loop, over the same index and the same module globals.
InitRollouts ==
    /\ pc = [e \in Episodes |-> "infer"]
    /\ exit = [e \in Episodes |-> "none"]
    /\ messages = [e \in Episodes |-> <<SystemMessage, UserMessage>>]
    /\ answer = [e \in Episodes |-> None]
    /\ reward = [e \in Episodes |-> 0]
    /\ turns = [e \in Episodes |-> 0]
    /\ tool_calls = [e \in Episodes |-> None]
    /\ idx = [e \in Episodes |-> 1]
    /\ budget = [e \in Episodes |-> MaxCalls]
    /\ inferCalls = [e \in Episodes |-> 0]
    /\ dispatched = [e \in Episodes |-> <<>>]
    /\ judgeCalls = [e \in Episodes |-> 0]
    /\ judgeResp = [e \in Episodes |-> None]
    /\ verdict = [e \in Episodes |-> None]
    /\ rewardWrites = [e \in Episodes |-> 0]
    /\ index = Pick(Units, {1, 2})
    /\ invocation = [e \in Episodes |-> None]
    /\ last_result = [e \in Episodes |-> None]
    /\ conn = None
    /\ connReaders = {}
    /\ connWriters = {}
    /\ NoRun

NextRollouts ==
    \E e \in Episodes :
        \/ InferTool(e)
        \/ RolloutCallTool(e)
        \/ EndTurn(e)

SpecRollouts == InitRollouts /\ [][NextRollouts]_vars

\* ---------------------------------------------------------- a judge run

\* Most judge_answer invocations of one run.
MaxJudgeRuns == 3

\* The candidate answers judge_answer is given, for one question and one
\* reference answer.
Candidates == {"a1", "a2"}

\* The content the prompt is built from: question, ref_answer and the answer
\* to judge.
JudgeMessages(question, ref_answer, candidate) == <<question, ref_answer, candidate>>

Prompts == { JudgeMessages("question", "reference", a) : a \in Candidates }

\* A deterministic inference stub: one reply per prompt.
Stubs == [Prompts -> JudgeReplies]

\* Faulty variant: the cache key leaves out the candidate answer.
CacheKey_NoAnswer(prompt) == <<prompt[1], prompt[2]>>

\* caching=True: the cache is keyed on the model and the messages of the call.
CacheKey(prompt) == prompt

\* The entries of the cache for the prompt (none when no cache is configured).
CacheHits(prompt) ==
    IF judge_cache = None THEN {}
    ELSE { c \in judge_cache[1] : c.key = CacheKey(prompt) }

\* acompletion(model="gpt-4.1", messages=messages, caching=True): a cached
\* response when there is one, else the stub's reply.
acompletion(prompt) ==
    IF CacheHits(prompt) # {} THEN (CHOOSE c \in CacheHits(prompt) : TRUE).reply
    ELSE judge_stub[prompt]

\* One invocation of judge_answer; a response that was not raised and not
\* served from the cache is stored in it.
JudgeRun(question, ref_answer, candidate) ==
    /\ judge_stub # <<>>
    /\ Len(judged) < MaxJudgeRuns
    /\ LET prompt == JudgeMessages(question, ref_answer, candidate)
           reply == acompletion(prompt)
       IN  /\ judged' = Append(judged, [prompt |-> prompt, verdict |-> judge_answer(reply)])
           /\ judge_cache' =
                IF judge_cache = None \/ reply.kind = "raise" \/ CacheHits(prompt) # {}
                  THEN judge_cache
                  ELSE Some(judge_cache[1] \cup {[key |-> CacheKey(prompt), reply |-> reply]})
    /\ UNCHANGED <<pc, exit, messages, answer, reward, turns, tool_calls, idx, budget,
                   inferCalls, dispatched, judgeCalls, judgeResp, verdict, rewardWrites>>
    /\ UNCHANGED toolVars
    /\ UNCHANGED <<judge_stub, driver, avg_reward>>

\* A run that only judges: no episode is started; the stub is any
\* deterministic one, the cache configured (and empty) or not.
InitJudge ==
    /\ pc = [e \in Episodes |-> "idle"]
    /\ exit = [e \in Episodes |-> "none"]
    /\ messages = [e \in Episodes |-> <<>>]
    /\ answer = [e \in Episodes |-> None]
    /\ reward = [e \in Episodes |-> 0]
    /\ turns = [e \in Episodes |-> 0]
    /\ tool_calls = [e \in Episodes |-> None]
    /\ idx = [e \in Episodes |-> 1]
    /\ budget = [e \in Episodes |-> MaxCalls]
    /\ inferCalls = [e \in Episodes |-> 0]
    /\ dispatched = [e \in Episodes |-> <<>>]
    /\ judgeCalls = [e \in Episodes |-> 0]
    /\ judgeResp = [e \in Episodes |-> None]
    /\ verdict = [e \in Episodes |-> None]
    /\ rewardWrites = [e \in Episodes |-> 0]
    /\ index = <<>>
    /\ invocation = [e \in Episodes |-> None]
    /\ last_result = [e \in Episodes |-> None]
    /\ conn = None
    /\ connReaders = {}
    /\ connWriters = {}
    /\ judge_stub \in Stubs
    /\ judge_cache \in {None, Some({})}
    /\ judged = <<>>
    /\ driver = "idle"
    /\ avg_reward = None

NextJudge == \E a \in Candidates : JudgeRun("question", "reference", a)

SpecJudge == InitJudge /\ [][NextJudge]_vars

\* ------------------------------------------------------- what claims read

\* Positions of the log where return_answer was invoked and returned.
AnswerCalls(e) ==
    { i \in DOMAIN dispatched[e] :
        dispatched[e][i].name = "return_answer" /\ dispatched[e][i].outcome = "value" }

\* Positions of the log where parsing the arguments or the tool raised.
Faults(e) ==
    { i \in DOMAIN dispatched[e] : dispatched[e][i].outcome \in {"parse_error", "raised"} }

\* The step appends an entry to the log of episode e.
Logs(e) == Len(dispatched'[e]) = Len(dispatched[e]) + 1

Last(s) == s[Len(s)]

\* An assistant message that carries no tool-call request: the list is absent
\* or present but empty.
NoToolCallRequests(m) ==
    m.role = "assistant" /\ (m.tool_calls = None \/ m.tool_calls = Some(<<>>))

\* The tool messages of episode e that answer correlation id `id`.
ResultsFor(e, id) ==
    { j \in DOMAIN messages[e] :
        messages[e][j].role = "tool" /\ messages[e][j].tool_call_id = id }

\* run_agent has returned its trajectory.
AgentReturned(e) == pc[e] \in {"agent_returned", "judging", "returned"}

\* ------------------------------------------------------------------ claims

\* C1: the trajectory's answer is set if and only if a return_answer call was
\* resolved and invoked without fault; an episode that ended on an assistant
\* message without tool calls, on the turn budget or on a dispatch fault has
\* no answer, and a returned trajectory with an answer ended by return_answer.
C1_AnswerIffReturnAnswer ==
    \A e \in Episodes :
        /\ answer[e] # None <=> AnswerCalls(e) # {}
        /\ exit[e] \in {"no_tool_call", "budget", "error"} => answer[e] = None
        /\ AgentReturned(e) /\ answer[e] # None => exit[e] = "answer"

C1_Witness ==
    \E e \in Episodes : pc[e] = "returned" /\ answer[e] # None /\ AnswerCalls(e) # {}

\* C2: once the turn that received it is over, every assistant message without
\* tool-call requests (list absent or empty) is the last message of the
\* conversation and ended the episode as TERMINATED_NO_TOOL_CALL with no
\* answer: no inference call is requested after it.
C2_NoToolCallsEndsEpisode ==
    \A e \in Episodes : \A i \in DOMAIN messages[e] :
        (pc[e] # "dispatch" /\ NoToolCallRequests(messages[e][i])) =>
            /\ i = Len(messages[e])
            /\ exit[e] = "no_tool_call"
            /\ answer[e] = None

\* C3: an episode that completed MAX_TURNS turns without return_answer having
\* been invoked has no answer, reward 0, and the judge was never invoked.
C3_TurnCapNoAnswerNoJudge ==
    \A e \in Episodes :
        turns[e] = MAX_TURNS /\ AnswerCalls(e) = {} =>
            /\ answer[e] = None
            /\ reward[e] = 0
            /\ judgeCalls[e] = 0
            /\ verdict[e] = None

C3_Witness ==
    \E e \in Episodes :
        /\ pc[e] = "returned"
        /\ turns[e] = MAX_TURNS
        /\ exit[e] = "budget"
        /\ dispatched[e] # <<>>

\* C4: the step that invokes return_answer without fault makes its result the
\* answer and returns from run_agent; once the answer is set, no tool is
\* dispatched, no message is appended and no inference call is made.
C4_FirstReturnAnswerEnds ==
    /\ [][\A e \in Episodes :
            (Logs(e) /\ Len(dispatched'[e]) \in AnswerCalls(e)') =>
                /\ answer'[e] # None
                /\ answer'[e][1].of = Last(dispatched'[e]).id
                /\ pc'[e] = "agent_returned"]_vars
    /\ [][\A e \in Episodes :
            answer[e] # None =>
                UNCHANGED <<messages[e], dispatched[e], inferCalls[e], answer[e]>>]_vars

\* return_answer was invoked with a further tool call behind it in the message.
C4_Witness ==
    \E e \in Episodes :
        /\ pc[e] = "returned"
        /\ answer[e] # None
        /\ idx[e] < Len(tool_calls[e][1])
        /\ tool_calls[e][1][idx[e]].name = "return_answer"

\* C5: whenever the next assistant turn is requested, every tool-call request
\* of every assistant message has exactly one tool message with its id.
C5_EveryCallHasOneResult ==
    \A e \in Episodes :
        pc[e] = "infer" =>
            \A i \in DOMAIN messages[e] :
                (messages[e][i].role = "assistant" /\ messages[e][i].tool_calls # None) =>
                    \A k \in DOMAIN messages[e][i].tool_calls[1] :
                        Cardinality(ResultsFor(e, messages[e][i].tool_calls[1][k].id)) = 1

\* C6: the step in which parsing the arguments or the tool raises returns from
\* run_agent with no answer and appends nothing; after a fault no tool is
\* dispatched, no message is appended, no inference call is made and the
\* answer stays unset.
C6_FaultEndsEpisode ==
    /\ [][\A e \in Episodes :
            (Logs(e) /\ Len(dispatched'[e]) \in Faults(e)') =>
                /\ pc'[e] = "agent_returned"
                /\ exit'[e] = "error"
                /\ answer'[e] = None
                /\ messages'[e] = messages[e]]_vars
    /\ [][\A e \in Episodes :
            Faults(e) # {} =>
                UNCHANGED <<messages[e], dispatched[e], inferCalls[e], answer[e]>>]_vars

\* A fault with a return_answer call behind it in the same assistant message.
C6_Witness ==
    \E e \in Episodes :
        /\ pc[e] = "returned"
        /\ Faults(e) # {}
        /\ \E k \in DOMAIN tool_calls[e][1] :
             k > idx[e] /\ tool_calls[e][1][k].name = "return_answer"

\* C7: run_agent_and_score never propagates an exception to its caller.
C7_NeverPropagates ==
    \A e \in Episodes : pc[e] # "raised"

\* The judge's reply is an object whose fields, where present, have the types
\* of JudgeAnswer; anything else is no valid structured output.
WellTyped(reply) ==
    /\ reply.kind = "object"
    /\ reply.reasoning # "non_string"
    /\ reply.is_correct # "invalid"

\* C8: judge_answer never raises; when its inference call fails, or succeeds
\* with content that is no valid structured output, the verdict has
\* is_correct false and a non-empty reasoning.
C8_JudgeNeverRaises ==
    \A e \in Episodes :
        verdict[e] # None =>
            /\ ~verdict[e][1].raised
            /\ ~WellTyped(judgeResp[e][1]) =>
                 /\ ~verdict[e][1].is_correct
                 /\ verdict[e][1].reasoning # ""

\* The judge's inference call failed and the scorer returned the trajectory.
C8_Witness ==
    \E e \in Episodes :
        /\ pc[e] = "returned"
        /\ verdict[e] # None
        /\ judgeResp[e][1].kind = "raise"

\* C9: the reward of a returned trajectory is 0.0 or 1.0, and 1.0 exactly when
\* the episode ended by return_answer and the judge's verdict is correct.
C9_RewardBinary ==
    \A e \in Episodes :
        /\ reward[e] \in {0, 1}
        /\ pc[e] = "returned" =>
             (reward[e] = 1 <=>
                /\ exit[e] = "answer"
                /\ AnswerCalls(e) # {}
                /\ verdict[e] # None
                /\ verdict[e][1].is_correct)

C9_Witness ==
    \E e \in Episodes : pc[e] = "returned" /\ reward[e] = 1

\* C10: the judge is invoked at most once, only after run_agent returned a
\* trajectory with an answer; a trajectory without answer is returned with
\* reward 0 and no judge call.
C10_JudgeOnceAfterAnswer ==
    \A e \in Episodes :
        /\ judgeCalls[e] <= 1
        /\ judgeCalls[e] = 1 => pc[e] \in {"judging", "returned"} /\ answer[e] # None
        /\ pc[e] = "returned" /\ answer[e] = None => reward[e] = 0 /\ judgeCalls[e] = 0

C10_Witness ==
    \E e \in Episodes : pc[e] = "returned" /\ judgeCalls[e] = 1 /\ verdict[e] # None

\* s is a prefix of t.
IsPrefix(s, t) == Len(s) <= Len(t) /\ SubSeq(t, 1, Len(s)) = s

\* The reward is 0 and unwritten until the judge has returned its verdict.
RewardUnwrittenBeforeVerdict ==
    \A e \in Episodes :
        /\ rewardWrites[e] <= 1
        /\ verdict[e] = None => reward[e] = 0 /\ rewardWrites[e] = 0
        /\ pc[e] \in {"idle", "infer", "dispatch", "agent_returned", "judging"} =>
             reward[e] = 0 /\ rewardWrites[e] = 0
        /\ rewardWrites[e] = 1 => pc[e] = "returned" /\ judgeCalls[e] = 1

\* A step changes the reward only by a counted write, and not after a write.
RewardStep ==
    \A e \in Episodes :
        /\ reward'[e] # reward[e] => rewardWrites'[e] = rewardWrites[e] + 1
        /\ rewardWrites[e] = 1 =>
             reward'[e] = reward[e] /\ rewardWrites'[e] = rewardWrites[e]

\* C11: the reward is 0 from creation through the whole agent loop, is written
\* at most once per episode, only after the judge's verdict is obtained, and
\* never changes afterwards.
C11_RewardWrittenOnce == []RewardUnwrittenBeforeVerdict /\ [][RewardStep]_vars

C11_Witness ==
    \E e \in Episodes :
        /\ pc[e] = "returned" /\ rewardWrites[e] = 1 /\ reward[e] = 1
        /\ turns[e] >= 1

\* The conversation of a started episode begins with the system and the user
\* message, and is exactly these two before the first inference call returns.
Seeded ==
    \A e \in Episodes :
        pc[e] # "idle" =>
            /\ Len(messages[e]) >= 2
            /\ messages[e][1] = SystemMessage
            /\ messages[e][2] = UserMessage
            /\ inferCalls[e] = 0 => messages[e] = <<SystemMessage, UserMessage>>

\* C12: the conversation is append-only: it starts as [system, user] and every
\* step leaves the previous conversation as a prefix of the new one.
C12_AppendOnly ==
    []Seeded /\ [][\A e \in Episodes : IsPrefix(messages[e], messages'[e])]_vars

\* An episode that ended on a fault after tool results were appended.
C12_Witness ==
    \E e \in Episodes :
        /\ pc[e] = "returned" /\ exit[e] = "error"
        /\ Len(messages[e]) >= 5

\* -------------------------------------------------- claims on the tools

\* Episode e has a search_functions call that returned a list.
SearchReturned(e) ==
    /\ invocation[e] # None /\ invocation[e][1].name = "search_functions"
    /\ last_result[e] # None /\ ~last_result[e][1].raised
    /\ last_result[e][1].value # None

\* The entries of that list.
Items(e) == last_result[e][1].value[1].items

\* The unit a search result stands for.
UnitOf(r) == index[CHOOSE i \in DOMAIN index : Key(index[i]) = ResultKey(r)]

\* The indexed text of the unit holds keyword k, as a token or as a substring.
HoldsKeyword(unit, k) == Tok(k) \in unit.fts \/ k \in unit.like

\* C13: every entry search_repo returns is a unit of the target repository
\* whose indexed text matches all of the keywords.
C13_ConjunctiveMatch ==
    \A e \in Episodes :
        SearchReturned(e) =>
            \A i \in DOMAIN Items(e) :
                /\ Items(e)[i].repo_name = Repo
                /\ \A j \in DOMAIN invocation[e][1].keywords :
                     HoldsKeyword(UnitOf(Items(e)[i]), invocation[e][1].keywords[j])

\* C14: the list search_repo returns never holds two entries with the same
\* (repo, func_path, func_name).
C14_NoDuplicateKeys ==
    \A e \in Episodes :
        SearchReturned(e) =>
            \A i, j \in DOMAIN Items(e) :
                ResultKey(Items(e)[i]) = ResultKey(Items(e)[j]) => i = j

\* A unit found by FTS and by LIKE is in the list, once.
C14_Witness ==
    \E e \in Episodes :
        /\ SearchReturned(e)
        /\ invocation[e][1].fault = "none"
        /\ invocation[e][1].keywords # <<>>
        /\ \E u \in DOMAIN index :
             /\ index[u].repository_name = Repo
             /\ \A j \in DOMAIN invocation[e][1].keywords :
                  /\ Tok(invocation[e][1].keywords[j]) \in index[u].fts
                  /\ invocation[e][1].keywords[j] \in index[u].like
             /\ Cardinality({ i \in DOMAIN Items(e) :
                                ResultKey(Items(e)[i]) = Key(index[u]) }) = 1

\* C15: the list search_repo returns has at most max_results entries, however
\* many hits the strategies produce together.
C15_AtMostMaxResults ==
    \A e \in Episodes :
        SearchReturned(e) => Len(Items(e)) <= DEFAULT_MAX_RESULTS

\* The strategies found more distinct units than the cap, the list is full.
C15_Witness ==
    \E e \in Episodes :
        /\ SearchReturned(e)
        /\ Len(Items(e)) = DEFAULT_MAX_RESULTS
        /\ Len(RemoveDuplicates(
                 AllResults(index, Repo, invocation[e][1].keywords, DEFAULT_MAX_RESULTS,
                            invocation[e][1].fault, 0))) > DEFAULT_MAX_RESULTS

\* C16: in every search result the documentation field and the code field are
\* cut to a bounded preview length (200 characters, SNIPPET_TOKENS tokens).
C16_FieldsTruncated ==
    \A e \in Episodes :
        SearchReturned(e) =>
            \A i \in DOMAIN Items(e) :
                /\ Items(e)[i].func_docs <= 200
                /\ Items(e)[i].func_snippet.tokens <= SNIPPET_TOKENS

\* C17: search_repo with an empty keyword list is a wildcard: over a healthy
\* store it returns units of the target repository, at most the cap, and a
\* non-empty list when the repository has units.
C17_EmptyKeywordsWildcard ==
    \A e \in Episodes :
        /\ invocation[e] # None /\ invocation[e][1].name = "search_functions"
        /\ invocation[e][1].keywords = <<>>
        /\ invocation[e][1].fault = "none"
        /\ \E u \in DOMAIN index : index[u].repository_name = Repo
        => /\ last_result[e] # None
           /\ ~last_result[e][1].raised
           /\ last_result[e][1].value # None
           /\ Len(Items(e)) \in 1..DEFAULT_MAX_RESULTS

\* The step is a call of tool `name` by episode e.
Calls(e, name) ==
    /\ Logs(e)
    /\ invocation'[e] # None
    /\ invocation'[e][1].name = name

\* The step appends one tool message with empty content for the current tool
\* call, and leaves episode e in the for loop.
AppendsEmptyResult(e) ==
    /\ Len(messages'[e]) = Len(messages[e]) + 1
    /\ IsPrefix(messages[e], messages'[e])
    /\ Last(messages'[e]).role = "tool"
    /\ Last(messages'[e]).tool_call_id = tool_calls[e][1][idx[e]].id
    /\ Last(messages'[e]).content = ""
    /\ pc'[e] = "dispatch"
    /\ exit'[e] = "none"
    /\ answer'[e] = answer[e]

\* No strategy of the search finds a unit, the store answering.
NoMatch(inv) ==
    /\ inv.fault \in {"none", "fts_operational"}
    /\ \A order \in SetOrders :
         AllResults(index, Repo, inv.keywords, DEFAULT_MAX_RESULTS, inv.fault, order) = <<>>

\* C18: a search that finds no match returns None instead of raising, the
\* loop appends a tool message with empty content for the call, and the episode
\* goes on.
C18_NoMatchContinues ==
    [][\A e \in Episodes :
         Calls(e, "search_functions") /\ NoMatch(invocation'[e][1]) =>
             /\ last_result'[e] = Some(Outcome(FALSE, None))
             /\ AppendsEmptyResult(e)]_vars

\* A search without match, and in the next turn a search that found units.
C18_Witness ==
    \E e \in Episodes :
        /\ Len(dispatched[e]) = 2
        /\ dispatched[e][1].name = "search_functions" /\ dispatched[e][1].outcome = "none"
        /\ messages[e][4].role = "tool" /\ messages[e][4].content = ""
        /\ dispatched[e][2].name = "search_functions" /\ dispatched[e][2].outcome = "value"
        /\ SearchReturned(e) /\ Items(e) # <<>>

\* The key of a read is not in the index.
Missing(inv) ==
    \A u \in DOMAIN index : Key(index[u]) # <<Repo, inv.key[1], inv.key[2]>>

\* C19: a read of a key that is not in the index returns None and does not
\* raise (the connection opens); the loop appends a tool message for the call
\* and the episode goes on.
C19_ReadMissingContinues ==
    [][\A e \in Episodes :
         /\ Calls(e, "read_function")
         /\ Missing(invocation'[e][1])
         /\ invocation'[e][1].fault # "connect"
         => /\ last_result'[e] = Some(Outcome(FALSE, None))
            /\ AppendsEmptyResult(e)]_vars

\* A read of a missing key over an index with units, and in the next turn a
\* search that found units.
C19_Witness ==
    \E e \in Episodes :
        /\ index # <<>>
        /\ \A u \in DOMAIN index : Key(index[u]) \notin { <<Repo, k[1], k[2]>> : k \in ReadKeys }
        /\ Len(dispatched[e]) = 2
        /\ dispatched[e][1].name = "read_function" /\ dispatched[e][1].outcome = "none"
        /\ messages[e][4].role = "tool" /\ messages[e][4].content = ""
        /\ dispatched[e][2].name = "search_functions" /\ dispatched[e][2].outcome = "value"

\* C20: no mutable state is shared between concurrently running episodes: no
\* variable written by one episode's tools is read or written by another.
C20_NoSharedState ==
    \A e, f \in Episodes :
        e # f => ~(e \in connWriters /\ f \in connReaders \cup connWriters)

\* ------------------------------------------------ claims on the dispatch

\* Episode e is at a tool call of the for loop whose name does not resolve.
AtUnresolved(e) ==
    /\ pc[e] = "dispatch"
    /\ idx[e] <= Len(tool_calls[e][1])
    /\ ~Resolves(tool_calls[e][1][idx[e]].name)

\* The step is one of run_agent for episode e.
Steps(e) ==
    <<pc[e], idx[e], turns[e], messages[e], dispatched[e], exit[e]>>' #
    <<pc[e], idx[e], turns[e], messages[e], dispatched[e], exit[e]>>

\* C23: a tool call whose name is not in the vocabulary is skipped: no tool is
\* invoked, no tool message is appended, no fault is raised, the loop goes on
\* to the remaining calls of the turn, and the turn completes normally.
C23_UnresolvedSkipped ==
    /\ [][\A e \in Episodes :
            AtUnresolved(e) /\ Steps(e) =>
                /\ messages'[e] = messages[e]
                /\ dispatched'[e] = dispatched[e]
                /\ answer'[e] = answer[e]
                /\ idx'[e] = idx[e] + 1
                /\ pc'[e] = "dispatch"
                /\ exit'[e] = "none"
                /\ turns'[e] = turns[e]]_vars
    /\ [][\A e \in Episodes :
            (pc[e] = "dispatch" /\ idx[e] > Len(tool_calls[e][1]) /\ Steps(e)) =>
                /\ turns'[e] = turns[e] + 1
                /\ pc'[e] = IF turns'[e] < MAX_TURNS THEN "infer" ELSE "agent_returned"]_vars

\* A turn whose first call was unresolved and whose second call was
\* dispatched has completed, and the next inference call is requested.
C23_Witness ==
    \E e \in Episodes :
        /\ pc[e] = "infer" /\ turns[e] = 1
        /\ Len(tool_calls[e][1]) = 2
        /\ ~Resolves(tool_calls[e][1][1].name)
        /\ Len(dispatched[e]) = 1
        /\ dispatched[e][1].id = tool_calls[e][1][2].id
        /\ dispatched[e][1].outcome = "value"
        /\ ResultsFor(e, tool_calls[e][1][1].id) = {}

\* The positions of the tool messages of episode e, and of the log entries
\* of the calls that returned.
ToolMessagePositions(e) ==
    { i \in DOMAIN messages[e] : messages[e][i].role = "tool" }

ReturnedPositions(e) ==
    { i \in DOMAIN dispatched[e] : dispatched[e][i].outcome \in {"value", "none"} }

\* The position of the assistant message that carries the call with id `id`.
RequestOf(e, id) ==
    { i \in DOMAIN messages[e] :
        /\ messages[e][i].role = "assistant"
        /\ messages[e][i].tool_calls # None
        /\ \E k \in DOMAIN messages[e][i].tool_calls[1] :
             messages[e][i].tool_calls[1][k].id = id }

\* C24: the tool messages are exactly one per resolved tool call dispatched
\* without fault, in the order of the calls, each behind the assistant message
\* of its call and before the next one, each with the id and the name of its
\* call and with the stringified result, the empty string for None.
C24_ToolMessagesMatchCalls ==
    \A e \in Episodes :
        LET tools == Pick(messages[e], ToolMessagePositions(e))
            at == Pick([i \in DOMAIN messages[e] |-> i], ToolMessagePositions(e))
            logs == Pick(dispatched[e], ReturnedPositions(e))
        IN  /\ Len(tools) = Len(logs)
            /\ \A i \in DOMAIN tools :
                 /\ tools[i].tool_call_id = logs[i].id
                 /\ tools[i].name = logs[i].name
                 /\ tools[i].content =
                      (IF logs[i].outcome = "none" THEN ""
                       ELSE ToolValue(logs[i], logs[i].outcome)[1].str)
                 /\ \E r \in RequestOf(e, logs[i].id) :
                      /\ r < at[i]
                      /\ \A j \in (r + 1)..(at[i] - 1) : messages[e][j].role = "tool"
            /\ \A i, j \in DOMAIN logs :
                 (i < j /\ logs[i].id[1] = logs[j].id[1]) => logs[i].id[2] < logs[j].id[2]

\* A turn with two resolved calls, the first returned None, the second a
\* value: two tool messages behind the assistant message, in that order.
C24_Witness ==
    \E e \in Episodes :
        /\ Len(messages[e]) = 5
        /\ messages[e][3].role = "assistant"
        /\ Len(messages[e][3].tool_calls[1]) = 2
        /\ messages[e][4].role = "tool" /\ messages[e][4].content = ""
        /\ messages[e][4].tool_call_id = messages[e][3].tool_calls[1][1].id
        /\ messages[e][5].role = "tool" /\ messages[e][5].content # ""
        /\ messages[e][5].tool_call_id = messages[e][3].tool_calls[1][2].id

\* C26: a return_answer call requested by the MAX_TURNS-th inference call is
\* dispatched and its result is the final answer: the episode ends by the
\* answer, not by the turn budget.
C26_AnswerInLastTurn ==
    \A e \in Episodes :
        /\ inferCalls[e] = MAX_TURNS
        /\ turns[e] >= MAX_TURNS - 1
        /\ pc[e] # "dispatch"
        /\ AnswerCalls(e) # {}
        => /\ exit[e] = "answer"
           /\ answer[e] # None
           /\ turns[e] = MAX_TURNS - 1
           /\ Last(messages[e]).role = "tool"
           /\ Last(messages[e]).name = "return_answer"

C26_Witness ==
    \E e \in Episodes :
        /\ inferCalls[e] = MAX_TURNS
        /\ pc[e] = "returned"
        /\ exit[e] = "answer"
        /\ answer[e] # None
        /\ judgeCalls[e] = 1

\* C29: the verdict is correct only when the judge's inference call returned,
\* its content parsed as a JSON object and the object carries is_correct =
\* true; an object without is_correct gives false, one without reasoning the
\* default reasoning, and neither raises.
C29_CorrectOnlyWhenEstablished ==
    \A e \in Episodes :
        verdict[e] # None =>
            LET reply == judgeResp[e][1]
                v == verdict[e][1]
            IN  /\ v.is_correct =>
                     /\ reply.kind = "object"
                     /\ reply.is_correct = "true"
                     /\ ~v.raised
                /\ (reply.kind = "object" /\ reply.is_correct = "missing"
                    /\ reply.reasoning # "non_string") =>
                     /\ ~v.raised
                     /\ ~v.is_correct
                     /\ v.reasoning = GetReasoning(reply)
                /\ (reply.kind = "object" /\ reply.reasoning = "missing"
                    /\ reply.is_correct \in {"true", "false", "missing"}) =>
                     /\ ~v.raised
                     /\ v.reasoning = "No reasoning provided"
                     /\ v.is_correct = (reply.is_correct = "true")

\* A JSON object with neither field: a verdict of false with the default
\* reasoning, and the reward is 0.
C29_Witness ==
    \E e \in Episodes :
        /\ pc[e] = "returned"
        /\ verdict[e] # None
        /\ judgeResp[e][1].kind = "object"
        /\ judgeResp[e][1].is_correct = "missing"
        /\ judgeResp[e][1].reasoning = "missing"
        /\ ~verdict[e][1].is_correct
        /\ reward[e] = 0

\* run_agent is over for episode e: it returned, or an inference call raised.
Terminal(e) == pc[e] \in {"agent_returned", "judging", "returned", "raised"}

\* C25: every inference call returning, every episode reaches a terminal
\* state, and an episode never makes more than MAX_TURNS inference calls.
C25_Terminates ==
    /\ [](\A e \in Episodes : inferCalls[e] <= MAX_TURNS /\ turns[e] <= MAX_TURNS)
    /\ \A e \in Started : <>Terminal(e)

\* An episode that used all its turns and ended on the turn budget.
C25_Witness ==
    \E e \in Episodes :
        /\ inferCalls[e] = MAX_TURNS
        /\ turns[e] = MAX_TURNS
        /\ exit[e] = "budget"
        /\ Len(dispatched[e]) >= 1

AllFinished_Any == \E e \in Episodes : pc[e] = "returned"

\* Every run_agent_and_score coroutine of the batch has returned its
\* trajectory.
AllFinished == \A e \in Episodes : pc[e] = "returned"

\* sum(t.reward for t in all_trajectories)
RECURSIVE SumRewards(_)
SumRewards(S) ==
    IF S = {} THEN 0
    ELSE LET e == CHOOSE x \in S : TRUE IN reward[e] + SumRewards(S \ {e})

\* The average as the pair that is divided: the sum and len(all_trajectories).
Average == [sum |-> SumRewards(Episodes), count |-> Cardinality(Episodes)]

\* The inference stub of a rollout: no tool call, a search, or the answer.
InferRollout(e) ==
    /\ pc[e] = "infer"
    /\ \/ InferReturn(e, None)
       \/ /\ budget[e] > 0
          /\ \E name \in {"search_functions", "return_answer"} :
               InferReturn(e, Some(<<ToolCall(<<turns[e] + 1, 1>>, name, "ok")>>))

\* await art.gather_trajectory_groups(groups) returns the finished groups;
\* the rewards of their trajectories are summed and divided.
Gather ==
    /\ driver = "gathering"
    /\ AllFinished
    /\ driver' = "averaged"
    /\ avg_reward' = Some(Average)
    /\ UNCHANGED <<pc, exit, messages, answer, reward, turns, tool_calls, idx, budget,
                   inferCalls, dispatched, judgeCalls, judgeResp, verdict, rewardWrites>>
    /\ UNCHANGED toolVars
    /\ UNCHANGED <<judge_stub, judge_cache, judged>>

\* A coroutine of the batch raised: the exception leaves the await and train,
\* and no average is computed.
GatherRaise ==
    /\ driver = "gathering"
    /\ \E e \in Episodes : pc[e] = "raised"
    /\ driver' = "aborted"
    /\ UNCHANGED avg_reward
    /\ UNCHANGED <<pc, exit, messages, answer, reward, turns, tool_calls, idx, budget,
                   inferCalls, dispatched, judgeCalls, judgeResp, verdict, rewardWrites>>
    /\ UNCHANGED toolVars
    /\ UNCHANGED <<judge_stub, judge_cache, judged>>

\* The groups of a batch are built and handed to gather_trajectory_groups:
\* every rollout is started.  The inference stub of a rollout sends at most
\* one message with a tool call.
InitTrain ==
    /\ pc = [e \in Episodes |-> "infer"]
    /\ exit = [e \in Episodes |-> "none"]
    /\ messages = [e \in Episodes |-> <<SystemMessage, UserMessage>>]
    /\ answer = [e \in Episodes |-> None]
    /\ reward = [e \in Episodes |-> 0]
    /\ turns = [e \in Episodes |-> 0]
    /\ tool_calls = [e \in Episodes |-> None]
    /\ idx = [e \in Episodes |-> 1]
    /\ budget = [e \in Episodes |-> 1]
    /\ inferCalls = [e \in Episodes |-> 0]
    /\ dispatched = [e \in Episodes |-> <<>>]
    /\ judgeCalls = [e \in Episodes |-> 0]
    /\ judgeResp = [e \in Episodes |-> None]
    /\ verdict = [e \in Episodes |-> None]
    /\ rewardWrites = [e \in Episodes |-> 0]
    /\ index = Pick(Units, {1, 2})
    /\ invocation = [e \in Episodes |-> None]
    /\ last_result = [e \in Episodes |-> None]
    /\ conn = None
    /\ connReaders = {}
    /\ connWriters = {}
    /\ judge_stub = <<>>
    /\ judge_cache = None
    /\ judged = <<>>
    /\ driver = "gathering"
    /\ avg_reward = None

NextTrain ==
    \/ \E e \in Episodes :
         \/ InferRaise(e)
         \/ InferRollout(e)
         \/ DispatchCall(e)
         \/ EndTurn(e)
         \/ Score(e)
         \/ Judged(e)
    \/ Gather
    \/ GatherRaise

SpecTrain == InitTrain /\ [][NextTrain]_vars

\* ------------------------------------------- claims on the search order

\* The keys of the units of the repository that the full-text query for all
\* keywords finds, that a query for a variation of one keyword finds, and that
\* the substring query finds.
FtsKeys(inv) ==
    IF inv.fault # "none" \/ inv.keywords = <<>> THEN {}
    ELSE { Key(index[u]) : u \in { v \in DOMAIN index :
             /\ index[v].repository_name = Repo
             /\ \A j \in DOMAIN inv.keywords : Tok(inv.keywords[j]) \in index[v].fts } }

VariationKeys(inv) ==
    IF inv.fault # "none" THEN {}
    ELSE { Key(index[u]) : u \in { v \in DOMAIN index :
             /\ index[v].repository_name = Repo
             /\ \E j \in DOMAIN inv.keywords :
                  \E prefix \in {"", "combine", "mix", "base"} :
                      <<prefix, inv.keywords[j]>> \in index[v].fts } }

LikeKeys(inv) ==
    IF inv.keywords = <<>> THEN {}
    ELSE { Key(index[u]) : u \in { v \in DOMAIN index :
             /\ index[v].repository_name = Repo
             /\ \A j \in DOMAIN inv.keywords : inv.keywords[j] \in index[v].like } }

\* The strategy that finds a key first: 1 the full-text query for all
\* keywords, 2 a variation query, 3 the substring query.
Rank(inv, key) ==
    IF key \in FtsKeys(inv) THEN 1 ELSE IF key \in VariationKeys(inv) THEN 2 ELSE 3

\* A search went through its strategies (the store answering, or only the
\* full-text statements failing).
Searched(e) ==
    /\ invocation[e] # None /\ invocation[e][1].name = "search_functions"
    /\ invocation[e][1].fault \in {"none", "fts_operational"}
    /\ last_result[e] # None

\* C27: the list search_repo returns is the first max_results distinct entries
\* of the hits of the full-text query for all keywords, then of the variation
\* queries, then of the substring query: every key stands where it was found
\* first.
C27_FirstOccurrenceOrder ==
    \A e \in Episodes :
        Searched(e) =>
            LET inv == invocation[e][1]
                found == FtsKeys(inv) \cup VariationKeys(inv) \cup LikeKeys(inv)
                items == IF last_result[e][1].value = None THEN <<>> ELSE Items(e)
            IN  /\ ~last_result[e][1].raised
                /\ Len(items) = Min(Cardinality(found), DEFAULT_MAX_RESULTS)
                /\ \A i \in DOMAIN items : ResultKey(items[i]) \in found
                /\ \A i, j \in DOMAIN items :
                     i < j => /\ ResultKey(items[i]) # ResultKey(items[j])
                              /\ Rank(inv, ResultKey(items[i])) <= Rank(inv, ResultKey(items[j]))

\* A list with a hit of each strategy: of the full-text query, of a variation
\* only, of the substring query only.
C27_Witness ==
    \E e \in Episodes :
        /\ Searched(e) /\ SearchReturned(e)
        /\ \A rank \in 1..3 :
             \E i \in DOMAIN Items(e) : Rank(invocation[e][1], ResultKey(Items(e)[i])) = rank

\* C28: a storage error in a search strategy does not leave search_repo: with
\* the full-text statements failing the substring matches are returned, and
\* on another database error the empty list is returned.
C28_StorageErrorsContained ==
    \A e \in Episodes :
        (invocation[e] # None /\ invocation[e][1].name = "search_functions"
         /\ last_result[e] # None) =>
            LET inv == invocation[e][1]
                out == last_result[e][1]
            IN  /\ inv.fault = "fts_operational" =>
                     /\ ~out.raised
                     /\ LikeKeys(inv) = {} => out.value = None
                     /\ LikeKeys(inv) # {} =>
                          /\ out.value # None
                          /\ Len(out.value[1].items) =
                               Min(Cardinality(LikeKeys(inv)), DEFAULT_MAX_RESULTS)
                          /\ \A i \in DOMAIN out.value[1].items :
                               ResultKey(out.value[1].items[i]) \in LikeKeys(inv)
                /\ inv.fault = "database_error" =>
                     /\ ~out.raised
                     /\ out.value # None
                     /\ out.value[1].items = <<>>

\* The full-text statements failed and the list holds the substring matches.
C28_Witness ==
    \E e \in Episodes :
        /\ SearchReturned(e)
        /\ invocation[e][1].fault = "fts_operational"
        /\ Len(Items(e)) >= 2
        /\ pc[e] = "dispatch"

\* ------------------------------------------- claims on concurrent episodes

\* The trajectory-local state of episode e.
Local(e) ==
    <<pc[e], exit[e], messages[e], answer[e], turns[e], tool_calls[e], idx[e],
      inferCalls[e], dispatched[e], invocation[e], last_result[e]>>

\* The positions of the assistant messages of episode e.
AssistantPositions(e) ==
    { i \in DOMAIN messages[e] : messages[e][i].role = "assistant" }

\* C30: with the episodes interleaving at their inference calls, the
\* operations of one trajectory are sequential: its tool calls are dispatched
\* one at a time and are all complete before its next inference call, and its
\* conversation holds only the messages of its own inference calls and tool
\* dispatches, in their order.
C30_TrajectorySequential ==
    /\ [](\A e \in Episodes :
            /\ (pc[e] = "infer" /\ tool_calls[e] # None) => idx[e] > Len(tool_calls[e][1])
            /\ Cardinality(AssistantPositions(e)) = inferCalls[e]
            /\ Cardinality(ToolMessagePositions(e)) = Cardinality(ReturnedPositions(e))
            /\ Len(messages[e]) = 2 + inferCalls[e] + Cardinality(ReturnedPositions(e))
            /\ (last_result[e] # None /\ ~last_result[e][1].raised) =>
                 /\ Last(messages[e]).role = "tool"
                 /\ Last(messages[e]).content = Content(last_result[e][1].value))
    /\ [][\A e \in Episodes :
            /\ Local(e)' # Local(e) => \A x \in Episodes \ {e} : Local(x)' = Local(x)
            /\ IsPrefix(messages[e], messages'[e])
            /\ Len(messages'[e]) <= Len(messages[e]) + 1
            /\ Len(dispatched'[e]) <= Len(dispatched[e]) + 1
            /\ idx'[e] # idx[e] => (idx'[e] = idx[e] + 1 \/ pc[e] = "infer")
            /\ inferCalls'[e] # inferCalls[e] =>
                 /\ pc[e] = "infer"
                 /\ tool_calls[e] # None => idx[e] > Len(tool_calls[e][1])
                 /\ Last(messages'[e]).role = "assistant"
                 /\ dispatched'[e] = dispatched[e]]_vars

\* Two rollouts are in flight at once: one between its first tool call and
\* its second inference call, the other with its second tool call pending.
C30_Witness ==
    \E e1, e2 \in Episodes :
        /\ e1 # e2
        /\ pc[e1] = "dispatch" /\ idx[e1] > Len(tool_calls[e1][1])
        /\ Len(dispatched[e1]) = 1 /\ Last(messages[e1]).role = "tool"
        /\ pc[e2] = "dispatch" /\ idx[e2] <= Len(tool_calls[e2][1])
        /\ inferCalls[e2] = 2 /\ Last(messages[e2]).role = "assistant"

\* ------------------------------------------- claims on the training driver

\* C21: the rewards of a batch are averaged only after every trajectory of
\* the batch has finished with its reward finally set, and no reward of the
\* batch changes after the average is computed.
C21_AverageAfterAllRewards ==
    /\ [](driver = "averaged" =>
            /\ \A e \in Episodes :
                 /\ pc[e] = "returned"
                 /\ rewardWrites[e] = (IF verdict[e] = None THEN 0 ELSE 1)
                 /\ reward[e] = (IF verdict[e] # None /\ verdict[e][1].is_correct
                                   THEN 1 ELSE 0)
            /\ avg_reward = Some([sum |-> Cardinality({e \in Episodes : reward[e] = 1}),
                                  count |-> NumEpisodes]))
    /\ [][driver = "averaged" => (reward' = reward /\ avg_reward' = avg_reward)]_vars
    /\ [][avg_reward' # avg_reward =>
            \A e \in Episodes : pc[e] = "returned" /\ reward'[e] = reward[e]]_vars

\* The average of a batch with a judged-correct trajectory and one without
\* an answer.
C21_Witness ==
    /\ driver = "averaged"
    /\ avg_reward # None /\ avg_reward[1].sum = 1
    /\ \E e1, e2 \in Episodes :
         /\ reward[e1] = 1 /\ verdict[e1] # None
         /\ reward[e2] = 0 /\ verdict[e2] = None /\ answer[e2] = None

============================================================================
